---- MODULE Spec2Model ----
(***************************************************************************)
(* Terminal_Cubing: the press-and-hold inspection timer (App::space,       *)
(* App::update_timer), the cyclic list selection (StatefulList) and the    *)
(* polling loop that drives both (run_app), modelled from src/src/main.rs. *)
(***************************************************************************)
EXTENDS Integers, Sequences, FiniteSets, TLC

VARIABLES
    pc,                  \* where the program is: in main's setup ("start", "enter_screen", "new_terminal"),
                         \* in run_app's loop ("running"), after it ("returned" with Ok, "failed" with Err),
                         \* in main's teardown ("leave_screen", "show_cursor"), "exited", or "panicked"
    time,                \* App.time: i32
    timing_status,       \* App.timing_status: TimerStatus
    ticks_with_no_key,   \* App.ticks_with_no_key: u32
    key_pressed_in_tick, \* run_app's local flag
    items,               \* App.items.items: Vec<(&str, usize)>
    state,               \* App.items.state.selected(): Option<usize>
    overflow_checks,     \* the build's integer-overflow behaviour, fixed the first time a subtraction underflows
    silent_ticks,        \* history: update_timer(false) calls since the countdown last saw ticks_with_no_key = 0
    silent_from,         \* history: App.time when silent_ticks was last 0
    calls,               \* history: the StatefulList calls made on a list under test, with the selection before each
    raw_mode,            \* terminal: raw mode is enabled
    alternate_screen,    \* terminal: the alternate screen is entered
    cursor_hidden,       \* terminal: the cursor is hidden (Terminal::draw hides it)
    drawn_time,        \* terminal: the timer text of the last frame drawn, as a sequence of characters
    res,                 \* main's `res`: "none" until run_app returns, then "ok" or "err"
    exit_code,           \* the exit code of the process: None until main returns
    keys_read            \* history: a key event was read since the last update_timer call

vars == <<pc, time, timing_status, ticks_with_no_key, key_pressed_in_tick,
          items, state, overflow_checks, silent_ticks, silent_from, calls,
          raw_mode, alternate_screen, cursor_hidden, drawn_time, res, exit_code,
          keys_read>>

terminal_vars == <<raw_mode, alternate_screen, cursor_hidden, drawn_time>>
main_vars == <<res, exit_code>>

timer_vars == <<time, timing_status, ticks_with_no_key>>
list_vars == <<items, state>>
history_vars == <<silent_ticks, silent_from, calls>>

-----------------------------------------------------------------------------
(* Bounds of the model. *)

\* under Spec, ticks are not taken once a countdown has run for this many ticks
MaxCountdown == 150
\* under SpecKeyHeld, ticks are not taken once the countdown is this far below zero
MaxBelowZero == 3
\* ticks are not taken once a count-up has reached this value
MaxCountUp == 5
\* longest list the list operations are tried on
MaxLen == 4
\* longest sequence of calls made on a list under test
MaxCalls == 6
\* largest time the timer text is formatted for
MaxFormatTime == 10100

-----------------------------------------------------------------------------
(* Program constants. *)

\* self.time = 1500
InspectionTicks == 1500
\* if self.ticks_with_no_key > 60
ReleaseThreshold == 60
\* usize::MAX, the value `0usize - 1` wraps to when overflow checks are off.
\* TLC's integers are 32-bit signed, so the largest value it can hold stands
\* for the target's 2^64 - 1; the model only compares it and steps away from it.
UsizeMax == 2147483647

TimerStatus == {"COUNTDOWN", "COUNTUP", "PAUSED"}

\* Option<usize>
None == <<>>
Some(i) == <<i>>

\* The key codes run_app distinguishes; "other" is any key of the `_` arm.
KeyCodes == {" ", "q", "Left", "Down", "Up", "other"}

-----------------------------------------------------------------------------
(* StatefulList *)

\* a - 1 on usize with overflow checks off
wrapping_sub_one(a) == IF a >= 1 THEN a - 1 ELSE UsizeMax

\* does `self.items.len() - 1` underflow in next()? (evaluated only in the Some arm)
next_underflows(its, st) == st # None /\ Len(its) = 0

\* does `self.items.len() - 1` underflow in previous()? (evaluated only when i == 0)
previous_underflows(its, st) == st = Some(0) /\ Len(its) = 0

\* next with the wrap test `i > len - 1`: steps past the last item
next_wraps_late(its, st) ==
    IF st = None
    THEN Some(0)
    ELSE IF st[1] > wrapping_sub_one(Len(its)) THEN Some(0) ELSE Some(st[1] + 1)

\* StatefulList::next: the new selection
next(its, st) ==
    IF st = None
    THEN Some(0)
    ELSE IF st[1] >= wrapping_sub_one(Len(its)) THEN Some(0) ELSE Some(st[1] + 1)

\* previous that stops at the first item instead of wrapping to the last
previous_stops_at_first(its, st) ==
    IF st = None
    THEN Some(0)
    ELSE IF st[1] = 0 THEN Some(0) ELSE Some(st[1] - 1)

\* StatefulList::previous: the new selection
previous(its, st) ==
    IF st = None
    THEN Some(0)
    ELSE IF st[1] = 0 THEN Some(wrapping_sub_one(Len(its))) ELSE Some(st[1] - 1)

\* unselect that leaves the selection as it is
unselect_keeps(its, st) == st

\* StatefulList::unselect: the new selection
unselect(its, st) == None

\* One call of a StatefulList method `op` on (items, state).  An underflowing
\* subtraction panics in a build with overflow checks and wraps in one without;
\* which build this is gets fixed the first time it matters.
CallList(op) ==
    LET under == CASE op = "next" -> next_underflows(items, state)
                   [] op = "previous" -> previous_underflows(items, state)
                   [] OTHER -> FALSE
        result == CASE op = "next" -> next(items, state)
                    [] op = "previous" -> previous(items, state)
                    [] OTHER -> unselect(items, state)
    IN  IF under
        THEN \E mode \in {"on", "off"} :
                /\ overflow_checks \in {"unobserved", mode}
                /\ overflow_checks' = mode
                /\ IF mode = "on"
                   THEN pc' = "panicked" /\ state' = state
                   ELSE pc' = pc /\ state' = result
        ELSE /\ state' = result
             /\ UNCHANGED <<pc, overflow_checks>>

-----------------------------------------------------------------------------
(* App *)

\* StatefulList::with_items(vec![("Item0", 1), ...]) in App::new
StartupItems ==
    << <<"Item0", 1>>, <<"Item1", 2>>, <<"Item2", 1>>, <<"Item3", 3>>,
       <<"Item4", 1>>, <<"Item5", 4>>, <<"Item6", 1>> >>

\* the timer fields of App as one value
app == [time |-> time, timing_status |-> timing_status,
        ticks_with_no_key |-> ticks_with_no_key]

\* space without its guard: every press restarts the countdown
space_unguarded(a) ==
    [a EXCEPT !.time = InspectionTicks, !.timing_status = "COUNTDOWN"]

\* space that starts the countdown only from PAUSED
space_only_paused(a) ==
    IF a.timing_status = "PAUSED"
    THEN [a EXCEPT !.time = InspectionTicks, !.timing_status = "COUNTDOWN"]
    ELSE a

\* App::space
space(a) ==
    IF a.timing_status # "COUNTDOWN"
    THEN [a EXCEPT !.time = InspectionTicks, !.timing_status = "COUNTDOWN"]
    ELSE a

\* update_timer that tests the key before it counts: a tick with a key does not move the time
update_timer_key_first(a, key) ==
    LET counted == CASE a.timing_status = "COUNTDOWN" -> [a EXCEPT !.time = a.time - 1]
                     [] a.timing_status = "COUNTUP" -> [a EXCEPT !.time = a.time + 1]
                     [] OTHER -> a
    IN  IF key
        THEN [a EXCEPT !.ticks_with_no_key = 0]
        ELSE IF counted.timing_status # "COUNTDOWN"
        THEN counted
        ELSE IF counted.ticks_with_no_key + 1 > ReleaseThreshold
        THEN [time |-> 0, timing_status |-> "COUNTUP", ticks_with_no_key |-> 0]
        ELSE [counted EXCEPT !.ticks_with_no_key = counted.ticks_with_no_key + 1]

\* update_timer with the test `ticks_with_no_key >= 60`: releases one tick early
update_timer_early_release(a, key) ==
    LET counted == CASE a.timing_status = "COUNTDOWN" -> [a EXCEPT !.time = a.time - 1]
                     [] a.timing_status = "COUNTUP" -> [a EXCEPT !.time = a.time + 1]
                     [] OTHER -> a
    IN  IF key
        THEN [counted EXCEPT !.ticks_with_no_key = 0]
        ELSE IF counted.timing_status # "COUNTDOWN"
        THEN counted
        ELSE IF counted.ticks_with_no_key + 1 >= ReleaseThreshold
        THEN [time |-> 0, timing_status |-> "COUNTUP", ticks_with_no_key |-> 0]
        ELSE [counted EXCEPT !.ticks_with_no_key = counted.ticks_with_no_key + 1]

\* update_timer that forgets `ticks_with_no_key = 0` when a key was pressed
update_timer_no_reset(a, key) ==
    LET counted == CASE a.timing_status = "COUNTDOWN" -> [a EXCEPT !.time = a.time - 1]
                     [] a.timing_status = "COUNTUP" -> [a EXCEPT !.time = a.time + 1]
                     [] OTHER -> a
    IN  IF key
        THEN counted
        ELSE IF counted.timing_status # "COUNTDOWN"
        THEN counted
        ELSE IF counted.ticks_with_no_key + 1 > ReleaseThreshold
        THEN [time |-> 0, timing_status |-> "COUNTUP", ticks_with_no_key |-> 0]
        ELSE [counted EXCEPT !.ticks_with_no_key = counted.ticks_with_no_key + 1]

\* update_timer that keeps ticks_with_no_key when it switches to COUNTUP
update_timer_release_keeps_count(a, key) ==
    LET counted == CASE a.timing_status = "COUNTDOWN" -> [a EXCEPT !.time = a.time - 1]
                     [] a.timing_status = "COUNTUP" -> [a EXCEPT !.time = a.time + 1]
                     [] OTHER -> a
    IN  IF key
        THEN [counted EXCEPT !.ticks_with_no_key = 0]
        ELSE IF counted.timing_status # "COUNTDOWN"
        THEN counted
        ELSE IF counted.ticks_with_no_key + 1 > ReleaseThreshold
        THEN [time |-> 0, timing_status |-> "COUNTUP",
              ticks_with_no_key |-> counted.ticks_with_no_key + 1]
        ELSE [counted EXCEPT !.ticks_with_no_key = counted.ticks_with_no_key + 1]

\* update_timer that stops the timer (PAUSED) when the key is released
update_timer_release_pauses(a, key) ==
    LET counted == CASE a.timing_status = "COUNTDOWN" -> [a EXCEPT !.time = a.time - 1]
                     [] a.timing_status = "COUNTUP" -> [a EXCEPT !.time = a.time + 1]
                     [] OTHER -> a
    IN  IF key
        THEN [counted EXCEPT !.ticks_with_no_key = 0]
        ELSE IF counted.timing_status # "COUNTDOWN"
        THEN counted
        ELSE IF counted.ticks_with_no_key + 1 > ReleaseThreshold
        THEN [time |-> 0, timing_status |-> "PAUSED", ticks_with_no_key |-> 0]
        ELSE [counted EXCEPT !.ticks_with_no_key = counted.ticks_with_no_key + 1]

\* App::update_timer
update_timer(a, key) ==
    LET counted == CASE a.timing_status = "COUNTDOWN" -> [a EXCEPT !.time = a.time - 1]
                     [] a.timing_status = "COUNTUP" -> [a EXCEPT !.time = a.time + 1]
                     [] OTHER -> a
    IN  IF key
        THEN [counted EXCEPT !.ticks_with_no_key = 0]
        ELSE IF counted.timing_status # "COUNTDOWN"
        THEN counted
        ELSE IF counted.ticks_with_no_key + 1 > ReleaseThreshold
        THEN [time |-> 0, timing_status |-> "COUNTUP", ticks_with_no_key |-> 0]
        ELSE [counted EXCEPT !.ticks_with_no_key = counted.ticks_with_no_key + 1]

\* i32::to_string, as a sequence of characters
DigitChar(d) == <<"0", "1", "2", "3", "4", "5", "6", "7", "8", "9">>[d + 1]

RECURSIVE unsigned_to_string(_)
unsigned_to_string(n) ==
    IF n < 10
    THEN <<DigitChar(n)>>
    ELSE unsigned_to_string(n \div 10) \o <<DigitChar(n % 10)>>

to_string(n) == IF n < 0 THEN <<"-">> \o unsigned_to_string(-n) ELSE unsigned_to_string(n)

\* String::insert(idx, ch)
insert(str, idx, ch) == SubSeq(str, 1, idx) \o <<ch>> \o SubSeq(str, idx + 1, Len(str))

\* the timer text that pads a one-digit time with "0." only
centeral_time_short_pad(t) ==
    LET str == to_string(t)
    IN  CASE Len(str) = 0 -> <<"0", ".", "0", "0">>
          [] Len(str) = 1 -> <<"0", ".">> \o str
          [] Len(str) = 2 -> <<"0", ".">> \o str
          [] OTHER -> insert(str, Len(to_string(t)) - 2, ".")

\* ui: `centeral_time`, the timer text of the frame
centeral_time(t) ==
    LET str == to_string(t)
    IN  CASE Len(str) = 0 -> <<"0", ".", "0", "0">>
          [] Len(str) = 1 -> <<"0", ".", "0">> \o str
          [] Len(str) = 2 -> <<"0", ".">> \o str
          [] OTHER -> insert(str, Len(to_string(t)) - 2, ".")

\* terminal.draw(|f| ui(f, &mut app)) succeeds: the frame shows the app as it is
\* at the top of the iteration, and Terminal::draw hides the cursor
DrawFrame ==
    /\ drawn_time' = centeral_time(time)
    /\ cursor_hidden' = TRUE

\* run_app sets the flag only when space is read
key_flag_space_only(code, flag) == flag \/ code = " "

\* run_app: `key_pressed_in_tick = true` on every Event::Key, before the match
key_flag(code, flag) == TRUE

SetTimer(a) ==
    /\ time' = a.time
    /\ timing_status' = a.timing_status
    /\ ticks_with_no_key' = a.ticks_with_no_key

-----------------------------------------------------------------------------
(* run_app *)

\* App::new and the locals of run_app
Init ==
    /\ pc = "running"
    /\ time = 0
    /\ timing_status = "PAUSED"
    /\ ticks_with_no_key = 0
    /\ key_pressed_in_tick = FALSE
    /\ items = StartupItems
    /\ state = None
    /\ overflow_checks = "unobserved"
    /\ silent_ticks = 0
    /\ silent_from = 0
    /\ calls = <<>>
    /\ raw_mode = TRUE
    /\ alternate_screen = TRUE
    /\ cursor_hidden = FALSE
    /\ drawn_time = <<>>
    /\ res = "none"
    /\ exit_code = None
    /\ keys_read = FALSE

\* One iteration that reads a key: the frame is drawn, poll() is true and read()
\* returns Event::Key(key), the flag is set and the key dispatched.  (An
\* iteration that also reaches the tick boundary is this step followed by Tick.)
KeyEvent(code) ==
    /\ pc = "running"
    /\ DrawFrame
    /\ key_pressed_in_tick' = key_flag(code, key_pressed_in_tick)
    /\ keys_read' = TRUE
    /\ CASE code = " " ->
              /\ SetTimer(space(app))
              /\ UNCHANGED <<pc, list_vars, overflow_checks>>
         [] code = "q" ->
              /\ pc' = "returned"
              /\ res' = "ok"
              /\ UNCHANGED <<timer_vars, list_vars, overflow_checks>>
         [] code = "Left" ->
              /\ CallList("unselect")
              /\ UNCHANGED <<timer_vars, items>>
         [] code = "Down" ->
              /\ CallList("next")
              /\ UNCHANGED <<timer_vars, items>>
         [] code = "Up" ->
              /\ CallList("previous")
              /\ UNCHANGED <<timer_vars, items>>
         [] OTHER ->
              UNCHANGED <<pc, timer_vars, list_vars, overflow_checks>>
    /\ code # "q" => res' = res
    /\ UNCHANGED <<history_vars, raw_mode, alternate_screen, exit_code>>

\* One iteration that reads an event that is not a key (mouse, resize): the
\* frame is drawn and nothing else changes
NonKeyEvent ==
    /\ pc = "running"
    /\ DrawFrame
    /\ UNCHANGED <<pc, timer_vars, key_pressed_in_tick, list_vars, overflow_checks,
                   history_vars, raw_mode, alternate_screen, main_vars, keys_read>>

\* terminal.draw(..)?, poll(timeout)? or read()? returns Err: run_app returns it.
\* The frame has been drawn unless it was the draw that failed early.
IoError ==
    /\ pc = "running"
    /\ pc' = "failed"
    /\ res' = "err"
    /\ DrawFrame \/ UNCHANGED <<drawn_time, cursor_hidden>>
    /\ UNCHANGED <<timer_vars, key_pressed_in_tick, list_vars, overflow_checks,
                   history_vars, raw_mode, alternate_screen, exit_code, keys_read>>

\* One iteration whose poll times out: the frame is drawn, then
\* last_tick.elapsed() >= tick_rate, update_timer runs and the flag is cleared
TickBoundary ==
    /\ pc = "running"
    /\ DrawFrame
    /\ SetTimer(update_timer(app, key_pressed_in_tick))
    /\ key_pressed_in_tick' = FALSE
    /\ keys_read' = FALSE
    /\ IF key_pressed_in_tick \/ timing_status # "COUNTDOWN"
       THEN silent_ticks' = 0 /\ silent_from' = update_timer(app, key_pressed_in_tick).time
       ELSE silent_ticks' = silent_ticks + 1 /\ silent_from' = silent_from
    /\ UNCHANGED <<pc, list_vars, overflow_checks, calls,
                   raw_mode, alternate_screen, main_vars>>

\* a tick boundary, within the bounds of the model
Tick ==
    /\ timing_status = "COUNTDOWN" => time > InspectionTicks - MaxCountdown
    /\ timing_status = "COUNTUP" => time < MaxCountUp
    /\ TickBoundary

Next ==
    \/ \E code \in KeyCodes : KeyEvent(code)
    \/ NonKeyEvent
    \/ Tick
    \/ IoError

Spec == Init /\ [][Next]_vars

-----------------------------------------------------------------------------
(* main: terminal setup, run_app, terminal teardown.  Every `?` is a step   *)
(* that can fail; a failure makes main return the error (exit code 1) at    *)
(* once.  When main returns after Terminal::new, the Terminal is dropped,   *)
(* and its Drop tries to show a hidden cursor.                              *)

app_vars == <<timer_vars, key_pressed_in_tick, list_vars, overflow_checks,
              history_vars, keys_read>>

\* main returns Err(e): the process exits with code 1
ReturnErr ==
    /\ pc' = "exited"
    /\ exit_code' = Some(1)

\* Drop for Terminal: show the cursor if it is hidden, which can fail
DropTerminal == cursor_hidden' \in (IF cursor_hidden THEN {FALSE, TRUE} ELSE {FALSE})

InitMain ==
    /\ pc = "start"
    /\ time = 0
    /\ timing_status = "PAUSED"
    /\ ticks_with_no_key = 0
    /\ key_pressed_in_tick = FALSE
    /\ items = StartupItems
    /\ state = None
    /\ overflow_checks = "unobserved"
    /\ silent_ticks = 0
    /\ silent_from = 0
    /\ calls = <<>>
    /\ raw_mode = FALSE
    /\ alternate_screen = FALSE
    /\ cursor_hidden = FALSE
    /\ drawn_time = <<>>
    /\ res = "none"
    /\ exit_code = None
    /\ keys_read = FALSE

\* enable_raw_mode()?
EnableRawMode ==
    /\ pc = "start"
    /\ \/ /\ raw_mode' = TRUE
          /\ pc' = "enter_screen"
          /\ UNCHANGED exit_code
       \/ /\ ReturnErr
          /\ UNCHANGED raw_mode
    /\ UNCHANGED <<app_vars, alternate_screen, cursor_hidden, drawn_time, res>>

\* execute!(stdout, EnterAlternateScreen)?  When it fails the command may or
\* may not have reached the terminal.
EnterAlternateScreen ==
    /\ pc = "enter_screen"
    /\ \/ /\ alternate_screen' = TRUE
          /\ pc' = "new_terminal"
          /\ UNCHANGED exit_code
       \/ /\ ReturnErr
          /\ alternate_screen' \in BOOLEAN
    /\ UNCHANGED <<app_vars, raw_mode, cursor_hidden, drawn_time, res>>

\* Terminal::new(backend)?, then App::new() and the call of run_app
NewTerminal ==
    /\ pc = "new_terminal"
    /\ \/ /\ pc' = "running"
          /\ UNCHANGED exit_code
       \/ ReturnErr
    /\ UNCHANGED <<app_vars, terminal_vars, res>>

\* disable_raw_mode()?
DisableRawMode ==
    /\ pc \in {"returned", "failed"}
    /\ \/ /\ raw_mode' = FALSE
          /\ pc' = "leave_screen"
          /\ UNCHANGED <<exit_code, cursor_hidden>>
       \/ /\ ReturnErr
          /\ DropTerminal
          /\ UNCHANGED raw_mode
    /\ UNCHANGED <<app_vars, alternate_screen, drawn_time, res>>

\* execute!(terminal.backend_mut(), LeaveAlternateScreen, DisableMouseCapture)?
LeaveAlternateScreen ==
    /\ pc = "leave_screen"
    /\ \/ /\ alternate_screen' = FALSE
          /\ pc' = "show_cursor"
          /\ UNCHANGED <<exit_code, cursor_hidden>>
       \/ /\ ReturnErr
          /\ DropTerminal
          /\ alternate_screen' \in BOOLEAN
    /\ UNCHANGED <<app_vars, raw_mode, drawn_time, res>>

\* terminal.show_cursor()?, then the error of run_app is printed and main returns Ok(())
ShowCursor ==
    /\ pc = "show_cursor"
    /\ \/ /\ cursor_hidden' = FALSE
          /\ pc' = "exited"
          /\ exit_code' = Some(0)
       \/ /\ ReturnErr
          /\ DropTerminal
    /\ UNCHANGED <<app_vars, raw_mode, alternate_screen, drawn_time, res>>

NextMain ==
    \/ EnableRawMode
    \/ EnterAlternateScreen
    \/ NewTerminal
    \/ Next
    \/ DisableRawMode
    \/ LeaveAlternateScreen
    \/ ShowCursor

SpecMain == InitMain /\ [][NextMain]_vars

-----------------------------------------------------------------------------
(* ui on any time from 0 to MaxFormatTime: the app counts up at that time   *)
(* and an iteration draws the frame.                                        *)

InitFormat ==
    /\ pc = "running"
    /\ time \in 0..MaxFormatTime
    /\ timing_status = "COUNTUP"
    /\ ticks_with_no_key = 0
    /\ key_pressed_in_tick = FALSE
    /\ items = StartupItems
    /\ state = None
    /\ overflow_checks = "unobserved"
    /\ silent_ticks = 0
    /\ silent_from = 0
    /\ calls = <<>>
    /\ raw_mode = TRUE
    /\ alternate_screen = TRUE
    /\ cursor_hidden = FALSE
    /\ drawn_time = <<>>
    /\ res = "none"
    /\ exit_code = None
    /\ keys_read = FALSE

SpecFormat == InitFormat /\ [][NonKeyEvent]_vars

-----------------------------------------------------------------------------
(* The space bar held down: the terminal repeats the key, so run_app reads  *)
(* space before every tick boundary.  These are behaviours of run_app in    *)
(* which the countdown is followed all the way down.                        *)

\* the repeated key is read
HeldKeyEvent ==
    /\ ~key_pressed_in_tick
    /\ KeyEvent(" ")

\* the tick boundary that follows it
HeldTick ==
    /\ key_pressed_in_tick
    /\ time > -MaxBelowZero
    /\ TickBoundary

NextKeyHeld == HeldKeyEvent \/ HeldTick

SpecKeyHeld == Init /\ [][NextKeyHeld]_vars

-----------------------------------------------------------------------------
(* StatefulList on arbitrary lists: with_items on any list up to MaxLen,    *)
(* then any sequence of up to MaxCalls calls of next, previous, unselect.   *)

ItemValues == { <<"Item0", 1>>, <<"Item1", 2>> }

Lists == UNION { [1..n -> ItemValues] : n \in 0..MaxLen }

\* StatefulList::with_items(items)
InitList ==
    /\ pc = "running"
    /\ time = 0
    /\ timing_status = "PAUSED"
    /\ ticks_with_no_key = 0
    /\ key_pressed_in_tick = FALSE
    /\ items \in Lists
    /\ state = None
    /\ overflow_checks = "unobserved"
    /\ silent_ticks = 0
    /\ silent_from = 0
    /\ calls = <<>>
    /\ raw_mode = TRUE
    /\ alternate_screen = TRUE
    /\ cursor_hidden = FALSE
    /\ drawn_time = <<>>
    /\ res = "none"
    /\ exit_code = None
    /\ keys_read = FALSE

Call(op) ==
    /\ pc = "running"
    /\ Len(calls) < MaxCalls
    /\ CallList(op)
    /\ calls' = Append(calls, [op |-> op, before |-> state])
    /\ UNCHANGED <<timer_vars, key_pressed_in_tick, items, silent_ticks, silent_from,
                   terminal_vars, main_vars, keys_read>>

NextList == \E op \in {"next", "previous", "unselect"} : Call(op)

SpecList == InitList /\ [][NextList]_vars

-----------------------------------------------------------------------------
(* The timer: properties of space and update_timer under run_app (Spec).   *)

AnyKeyEvent == \E code \in KeyCodes : KeyEvent(code)

\* C1 (as stated): from the initial state (PAUSED, time 0, ticks_with_no_key 0),
\* once space has been read and the tick that observes it has run, the timer is
\* exactly (COUNTDOWN, 1500, 0).  (COUNTDOWN, 1500) with the flag set is the
\* state space() leaves; the tick that observes it is the next Tick.
C1_StartEdgeKeeps1500 ==
    [][(/\ timing_status = "COUNTDOWN" /\ time = InspectionTicks
        /\ key_pressed_in_tick /\ Tick)
       => (/\ timing_status' = "COUNTDOWN" /\ time' = InspectionTicks
           /\ ticks_with_no_key' = 0)]_vars

\* C1 (amended): PAUSED is the state (PAUSED, 0, 0); reading space there gives
\* (COUNTDOWN, 1500, 0) with the flag set; further keys before the tick leave
\* that alone; the tick that observes the key counts once, leaving
\* (COUNTDOWN, 1499, 0).
C1_StartEdge ==
    /\ [](timing_status = "PAUSED" => time = 0 /\ ticks_with_no_key = 0)
    /\ [][(timing_status = "PAUSED" /\ KeyEvent(" "))
          => (/\ timing_status' = "COUNTDOWN" /\ time' = InspectionTicks
              /\ ticks_with_no_key' = 0 /\ key_pressed_in_tick')]_vars
    /\ [][(/\ timing_status = "COUNTDOWN" /\ time = InspectionTicks /\ AnyKeyEvent)
          => (UNCHANGED timer_vars /\ key_pressed_in_tick')]_vars
    /\ [][(/\ timing_status = "COUNTDOWN" /\ time = InspectionTicks
           /\ key_pressed_in_tick /\ Tick)
          => (/\ timing_status' = "COUNTDOWN" /\ time' = InspectionTicks - 1
              /\ ticks_with_no_key' = 0)]_vars

\* the tick that observed the starting key press has run
C1_Witness ==
    /\ pc = "running" /\ timing_status = "COUNTDOWN" /\ time = InspectionTicks - 1
    /\ ticks_with_no_key = 0 /\ ~key_pressed_in_tick

\* C2: counting down from time e with ticks_with_no_key = 0, each of the first 60
\* consecutive ticks without a key leaves COUNTDOWN and takes one off the time
\* (e - 60 after the 60th); the 61st gives (COUNTUP, 0, 0).
C2_ReleaseThreshold ==
    /\ (silent_ticks = 0 /\ timing_status = "COUNTDOWN" /\ ~key_pressed_in_tick)
          => (time = silent_from /\ ticks_with_no_key = 0)
    /\ silent_ticks \in 1..ReleaseThreshold
          => (/\ timing_status = "COUNTDOWN"
              /\ time = silent_from - silent_ticks
              /\ ticks_with_no_key = silent_ticks)
    /\ (silent_ticks = ReleaseThreshold + 1 /\ ~key_pressed_in_tick)
          => (timing_status = "COUNTUP" /\ time = 0 /\ ticks_with_no_key = 0)
    /\ silent_ticks <= ReleaseThreshold + 1

\* the 61st consecutive tick without a key has just run
C2_Witness ==
    /\ silent_ticks = ReleaseThreshold + 1 /\ ~key_pressed_in_tick
    /\ timing_status = "COUNTUP" /\ time = 0

\* C3: in COUNTDOWN with 0 < ticks_with_no_key <= 60, reading space changes no
\* timer field (the time is not put back to 1500), and the tick that observes it
\* sets ticks_with_no_key to 0, stays in COUNTDOWN and takes exactly one off the
\* time; every tick that stays in COUNTDOWN takes exactly one off the time.
C3_Reassertion ==
    /\ [][(/\ timing_status = "COUNTDOWN" /\ ticks_with_no_key \in 1..ReleaseThreshold
           /\ KeyEvent(" "))
          => (UNCHANGED timer_vars /\ key_pressed_in_tick')]_vars
    /\ [][(/\ timing_status = "COUNTDOWN" /\ ticks_with_no_key \in 1..ReleaseThreshold
           /\ key_pressed_in_tick /\ Tick)
          => (/\ ticks_with_no_key' = 0 /\ timing_status' = "COUNTDOWN"
              /\ time' = time - 1)]_vars
    /\ [][(timing_status = "COUNTDOWN" /\ Tick /\ timing_status' = "COUNTDOWN")
          => time' = time - 1]_vars

\* the key has been read again at tick 30 of a silent run
C3_Witness ==
    /\ timing_status = "COUNTDOWN" /\ ticks_with_no_key = 30 /\ silent_ticks = 30
    /\ key_pressed_in_tick /\ time < InspectionTicks - 30

\* C4: COUNTDOWN is left for COUNTUP only by a tick without a key that is the
\* 61st in a row; a tick with a key, or one of the first 60 in a row without,
\* stays in COUNTDOWN, and so does every key event.
C4_HeldKeyNotReleased ==
    /\ [][(timing_status = "COUNTDOWN" /\ timing_status' # "COUNTDOWN")
          => (/\ Tick /\ ~key_pressed_in_tick
              /\ silent_ticks = ReleaseThreshold
              /\ silent_ticks' = ReleaseThreshold + 1
              /\ timing_status' = "COUNTUP")]_vars
    /\ [][(/\ timing_status = "COUNTDOWN" /\ Tick
           /\ (key_pressed_in_tick \/ silent_ticks < ReleaseThreshold))
          => timing_status' = "COUNTDOWN"]_vars
    /\ [][(timing_status = "COUNTDOWN" /\ AnyKeyEvent)
          => timing_status' = "COUNTDOWN"]_vars

\* 60 ticks in a row without a key, and still counting down
C4_Witness ==
    /\ timing_status = "COUNTDOWN" /\ silent_ticks = ReleaseThreshold
    /\ ticks_with_no_key = ReleaseThreshold /\ ~key_pressed_in_tick

\* C5: the time is never negative (checked with the key held, SpecKeyHeld).
C5_TimeNeverNegative == time >= 0

\* C6 (as stated): reading space while the phase is COUNTUP or COUNTDOWN leaves
\* the phase and the time unchanged.
C6_StartOnlyFromPaused ==
    [][(timing_status # "PAUSED" /\ KeyEvent(" ")) => UNCHANGED timer_vars]_vars

\* C6 (amended): the countdown starts exactly when space is read in a phase other
\* than COUNTDOWN (PAUSED or COUNTUP), and then the time is 1500; reading space
\* in COUNTDOWN changes no timer field.
C6_StartEdgeGuard ==
    /\ [][(timing_status = "COUNTDOWN" /\ KeyEvent(" "))
          => (UNCHANGED timer_vars /\ key_pressed_in_tick')]_vars
    /\ [][(timing_status # "COUNTDOWN" /\ KeyEvent(" "))
          => (/\ timing_status' = "COUNTDOWN" /\ time' = InspectionTicks
              /\ ticks_with_no_key' = ticks_with_no_key)]_vars
    /\ [][(timing_status # "COUNTDOWN" /\ timing_status' = "COUNTDOWN")
          => KeyEvent(" ")]_vars
    /\ [][(time' = InspectionTicks /\ time # InspectionTicks) => KeyEvent(" ")]_vars

\* space has restarted the countdown from COUNTUP (silent_from, the time at the
\* last tick, is a count-up value)
C6_Witness ==
    /\ timing_status = "COUNTDOWN" /\ time = InspectionTicks /\ key_pressed_in_tick
    /\ silent_ticks = 0 /\ silent_from = 2

-----------------------------------------------------------------------------
(* The list built at startup, under run_app (Spec).                        *)

InRange(its, st) == st = None \/ (st[1] >= 0 /\ st[1] < Len(its))

\* C9: the selection is always None or an index below len(items); Down (next)
\* on the last index selects 0 and Up (previous) on index 0 selects the last.
C9_SelectionValid ==
    /\ [](InRange(items, state) /\ pc # "panicked")
    /\ [][(state = Some(Len(items) - 1) /\ KeyEvent("Down")) => state' = Some(0)]_vars
    /\ [][(state = Some(0) /\ KeyEvent("Up")) => state' = Some(Len(items) - 1)]_vars

\* the last item of the startup list is selected by a navigation key
C9_Witness ==
    /\ items = StartupItems /\ state = Some(Len(items) - 1)
    /\ key_pressed_in_tick /\ pc = "running"

-----------------------------------------------------------------------------
(* StatefulList on arbitrary lists (SpecList).                             *)

OnlyNextCalls == \A i \in 1..Len(calls) : calls[i].op = "next"

\* C7 (as stated): on a non-empty list, len(items) calls of next() from None end
\* with index 0 selected.
C7_NextLenTimesSelectsFirst ==
    (Len(items) > 0 /\ Len(calls) = Len(items) /\ OnlyNextCalls) => state = Some(0)

\* C7 (amended): on a non-empty list, len(items) calls of next() from None end
\* with the last index, len(items) - 1, selected; one more call selects 0.
C7_NextLenTimesSelectsLast ==
    /\ (Len(items) > 0 /\ Len(calls) = Len(items) /\ OnlyNextCalls)
          => state = Some(Len(items) - 1)
    /\ (Len(items) > 0 /\ Len(calls) = Len(items) + 1 /\ OnlyNextCalls)
          => state = Some(0)

\* next() has been called len(items) times on a list of three or more items
C7_Witness ==
    Len(items) >= 3 /\ Len(calls) = Len(items) /\ OnlyNextCalls

LastTwoCalls(first, second) ==
    /\ Len(calls) >= 2
    /\ calls[Len(calls) - 1].op = first
    /\ calls[Len(calls)].op = second

\* C8 (as stated): on a non-empty list, previous() after next() restores the
\* selection, whether it was None or an index.
C8_PreviousUndoesNext ==
    (Len(items) > 0 /\ LastTwoCalls("next", "previous"))
        => state = calls[Len(calls) - 1].before

\* C8 (amended): on a non-empty list, previous() after next() restores a
\* selection that was an index; from None the two calls select the last index.
C8_PreviousUndoesNextOnIndex ==
    (Len(items) > 0 /\ LastTwoCalls("next", "previous"))
        => IF calls[Len(calls) - 1].before # None
           THEN state = calls[Len(calls) - 1].before
           ELSE state = Some(Len(items) - 1)

\* next() wrapped from the last index and previous() has brought it back
C8_Witness ==
    /\ Len(items) >= 2 /\ LastTwoCalls("next", "previous")
    /\ calls[Len(calls) - 1].before = Some(Len(items) - 1)
    /\ state = Some(Len(items) - 1)

\* C10: on a list with no items, next() and previous() never select an index and
\* never panic.
C10_EmptyListNoOp ==
    Len(items) = 0 => (state = None /\ pc # "panicked")

-----------------------------------------------------------------------------
(* main (SpecMain).                                                        *)

TerminalRestored == ~raw_mode /\ ~alternate_screen /\ ~cursor_hidden

\* C11: however main exits, raw mode is disabled, the alternate screen is left
\* and the cursor is shown when the process ends.
C11_TerminalRestoredOnExit == pc = "exited" => TerminalRestored

\* C18: reading 'q' makes run_app return Ok; nothing of the app or the frame
\* changes after the loop has ended; and a process whose loop ended by 'q' exits
\* with the terminal restored and code 0.
C18_QuitRestoresAndExitsZero ==
    /\ [][KeyEvent("q") => (pc' = "returned" /\ res' = "ok")]_vars
    /\ [][pc # "running" => UNCHANGED <<timer_vars, list_vars, drawn_time>>]_vars
    /\ []((pc = "exited" /\ res = "ok") => (exit_code = Some(0) /\ TerminalRestored))

-----------------------------------------------------------------------------
(* The timer, continued (Spec).                                            *)

\* C12: a tick in which a key was observed ends with ticks_with_no_key = 0;
\* ticks_with_no_key grows only by one, on a tick in COUNTDOWN without a key;
\* a tick in PAUSED or COUNTUP never makes it larger.
C12_SilenceRunDiscipline ==
    /\ [][(key_pressed_in_tick /\ Tick) => ticks_with_no_key' = 0]_vars
    /\ [][ticks_with_no_key' > ticks_with_no_key
          => (/\ Tick /\ timing_status = "COUNTDOWN" /\ ~key_pressed_in_tick
              /\ ticks_with_no_key' = ticks_with_no_key + 1)]_vars
    /\ [][(timing_status # "COUNTDOWN" /\ Tick)
          => ticks_with_no_key' <= ticks_with_no_key]_vars

\* a tick with the key (1500 -> 1499, count 0), then one without (count 1)
C12_Witness ==
    /\ timing_status = "COUNTDOWN" /\ time = InspectionTicks - 2
    /\ ticks_with_no_key = 1 /\ ~key_pressed_in_tick

NavigationKeys == {"Left", "Down", "Up", "other"}

\* C15: reading a navigation key (Up, Down, Left) or an unrecognized key leaves
\* the key-asserted flag as it was, so the next tick treats the timer as if no
\* key had been pressed.
C15_OnlySpaceSetsFlag ==
    [][(\E code \in NavigationKeys : KeyEvent(code))
       => key_pressed_in_tick' = key_pressed_in_tick]_vars

SpaceStarts == timing_status # "COUNTDOWN" /\ KeyEvent(" ")

\* C16 (as stated): no key event changes the phase, the time or
\* ticks_with_no_key; only the tick does.
C16_KeysLeaveTimer == [][AnyKeyEvent => UNCHANGED timer_vars]_vars

\* C16 (amended): the timer fields change only in a tick (update_timer) or when
\* space is read outside COUNTDOWN (space() sets COUNTDOWN and 1500 at once);
\* every other key event leaves them alone, and ticks_with_no_key changes only
\* in a tick.
C16_TimerMutation ==
    /\ [][(AnyKeyEvent /\ ~SpaceStarts) => UNCHANGED timer_vars]_vars
    /\ [][timer_vars' # timer_vars => (Tick \/ SpaceStarts)]_vars
    /\ [][ticks_with_no_key' # ticks_with_no_key => Tick]_vars

\* a navigation key has been read in the middle of a silent run, the timer intact
C16_Witness ==
    /\ timing_status = "COUNTDOWN" /\ ticks_with_no_key = 5 /\ silent_ticks = 5
    /\ time = silent_from - 5 /\ key_pressed_in_tick /\ state = Some(0)

\* C17: the flag is set exactly when a key event has been read since the last
\* update_timer call (or since startup), so update_timer receives true if and
\* only if one was; the flag is false right after every update_timer call.
C17_FlagHandOff ==
    /\ [](key_pressed_in_tick = keys_read)
    /\ [][Tick => (/\ ~key_pressed_in_tick'
                   /\ timer_vars' = <<update_timer(app, keys_read).time,
                                      update_timer(app, keys_read).timing_status,
                                      update_timer(app, keys_read).ticks_with_no_key>>)]_vars

\* two keys read with no tick boundary between them: the flag is carried over
C17_Witness ==
    /\ pc = "running" /\ keys_read /\ key_pressed_in_tick
    /\ state = Some(1) /\ timing_status = "PAUSED"

\* C19: 0 <= ticks_with_no_key <= 60 in every state, and ticks_with_no_key = 0
\* whenever the phase is not COUNTDOWN.
C19_SilenceRunRange ==
    /\ ticks_with_no_key >= 0
    /\ ticks_with_no_key <= ReleaseThreshold
    /\ timing_status # "COUNTDOWN" => ticks_with_no_key = 0

\* a key is read when the count has reached 60
C19_Witness ==
    /\ timing_status = "COUNTDOWN" /\ ticks_with_no_key = ReleaseThreshold
    /\ key_pressed_in_tick

\* C20: while the phase is PAUSED the time is 0, and once the phase has left
\* PAUSED it is never PAUSED again.
C20_PausedOnlyInitially ==
    /\ [](timing_status = "PAUSED" => time = 0)
    /\ [][timing_status # "PAUSED" => timing_status' # "PAUSED"]_vars

\* the timer has been released into COUNTUP and has counted
C20_Witness ==
    /\ timing_status = "COUNTUP" /\ time = 4 /\ key_pressed_in_tick

-----------------------------------------------------------------------------
(* The timer text (SpecFormat).                                            *)

Pad2(n) == <<DigitChar(n \div 10), DigitChar(n % 10)>>

\* C13: for every time t >= 0 the frame shows the decimal of t div 100, a point,
\* and t mod 100 in two digits; 1500 is "15.00", 5 is "0.05" and 0 is "0.00".
C13_TimeFormat ==
    drawn_time # <<>> =>
        /\ drawn_time = to_string(time \div 100) \o <<".">> \o Pad2(time % 100)
        /\ time = 1500 => drawn_time = <<"1", "5", ".", "0", "0">>
        /\ time = 5 => drawn_time = <<"0", ".", "0", "5">>
        /\ time = 0 => drawn_time = <<"0", ".", "0", "0">>

\* the frame has been drawn at time 1500
C13_Witness == time = 1500 /\ drawn_time # <<>> /\ cursor_hidden

-----------------------------------------------------------------------------
(* StatefulList, continued (SpecList).                                     *)

\* C14: unselect() leaves the selection None whatever it was, so also when it is
\* called again; no call changes the items.
C14_Unselect ==
    /\ []((Len(calls) >= 1 /\ calls[Len(calls)].op = "unselect")
             => (state = None /\ pc = "running"))
    /\ [][items' = items]_vars

\* unselect() has cleared an index and has been called again
C14_Witness ==
    /\ LastTwoCalls("unselect", "unselect")
    /\ calls[Len(calls) - 1].before # None
    /\ state = None

====
